---- MODULE Spec2Model ----
(***************************************************************************)
(* Model of relion_star_handler.py: the RelionMetaData class, which loads  *)
(* a RELION star file into one or two pandas DataFrames, projects rows     *)
(* with iloc, and writes the DataFrames back as a star file.               *)
(*                                                                         *)
(* A text line is a sequence of one-character strings, without its line    *)
(* terminator; a file is a sequence of lines.  A DataFrame is a record of  *)
(* its column labels, its rows (sequences of strings) and its index        *)
(* labels.  DataFrame objects live in the heap `frames`; a RelionMetaData  *)
(* object holds references into it (0 is None).                            *)
(***************************************************************************)
EXTENDS Integers, Sequences, FiniteSets, TLC

VARIABLES disk, diskFrom, frames, docs, last

vars == <<disk, diskFrom, frames, docs, last>>

----------------------------------------------------------------------------
(* Bounds of the model. *)

MaxCols == 2
MaxRows == 2
MaxDocs == 2
MaxIdx == 2

----------------------------------------------------------------------------
(* Python str operations used by the program. *)

Min(S) == CHOOSE x \in S : \A y \in S : x <= y

IsSpace(c) == c = " "

RECURSIVE LStrip(_)
LStrip(s) ==
    IF s # <<>> /\ IsSpace(Head(s)) THEN LStrip(Tail(s)) ELSE s

RECURSIVE RStrip(_)
RStrip(s) ==
    IF s # <<>> /\ IsSpace(s[Len(s)]) THEN RStrip(SubSeq(s, 1, Len(s) - 1)) ELSE s

\* str.strip()
Strip(s) == RStrip(LStrip(s))

RECURSIVE SplitFrom(_, _, _)
SplitFrom(s, cur, acc) ==
    IF s = <<>>
    THEN IF cur = <<>> THEN acc ELSE Append(acc, cur)
    ELSE IF IsSpace(Head(s))
         THEN SplitFrom(Tail(s), <<>>, IF cur = <<>> THEN acc ELSE Append(acc, cur))
         ELSE SplitFrom(Tail(s), Append(cur, Head(s)), acc)

\* str.split() with no argument: the maximal runs of non-whitespace characters
Split(s) == SplitFrom(s, <<>>, <<>>)

\* str.startswith(p)
StartsWith(s, p) == Len(s) >= Len(p) /\ SubSeq(s, 1, Len(p)) = p

RECURSIVE Join(_, _)
\* sep.join(parts)
Join(parts, sep) ==
    IF parts = <<>> THEN <<>>
    ELSE IF Len(parts) = 1 THEN parts[1]
    ELSE parts[1] \o sep \o Join(Tail(parts), sep)

----------------------------------------------------------------------------
(* String literals of the program. *)

DataOptics == <<"d", "a", "t", "a", "_", "o", "p", "t", "i", "c", "s">>
DataParticles == <<"d", "a", "t", "a", "_", "p", "a", "r", "t", "i", "c", "l", "e", "s">>
DataLegacy == <<"d", "a", "t", "a", "_">>
LoopMarker == <<"l", "o", "o", "p", "_">>
LabelPrefix == <<"_">>
\* '# Created by cryoPICLS at <timestamp>': the text after '#' is abbreviated
Provenance == <<"#", " ", "C", " ", "t">>

----------------------------------------------------------------------------
(* pandas / numpy objects. *)

\* pd.DataFrame(data, columns=headers): default RangeIndex 0..n-1
RangeIndex(n) == [k \in 1..n |-> k - 1]

DataFrame(data, columns) ==
    [columns |-> columns, rows |-> data, index |-> RangeIndex(Len(data))]

NoFrame == [columns |-> <<>>, rows |-> <<>>, index |-> <<>>]

\* pd.DataFrame raises ValueError unless data has one column per label
FrameOK(data, columns) == \A i \in 1..Len(data) : Len(data[i]) = Len(columns)

\* np.array(body) is two-dimensional only if all rows have the same length
Rectangular(body) == \A i, j \in 1..Len(body) : Len(body[i]) = Len(body[j])

\* body.shape[1]
Shape1(body) == Len(body[1])

----------------------------------------------------------------------------
(* RelionMetaData._read_block *)

\* the lines of f that begin with prefix p, and the whitespace-only lines
Beginning(f, p) == {i \in 1..Len(f) : StartsWith(f[i], p)}
BlankLines(f) == {i \in 1..Len(f) : Strip(f[i]) = <<>>}

\* `for line in f: if <condition>: break` from cursor pos, where breaks are the
\* lines that satisfy the condition; `line` is the index of the line the loop
\* variable is bound to (0: unbound)
ForBreak(f, pos, line, breaks) ==
    LET S == {i \in pos..Len(f) : i \in breaks}
    IN  IF S # {}
        THEN [pos |-> Min(S) + 1, line |-> Min(S), hit |-> TRUE]
        ELSE [pos |-> Len(f) + 1,
              line |-> IF pos <= Len(f) THEN Len(f) ELSE line,
              hit |-> FALSE]

\* assert len(headers) == body.shape[1]
ArityUnchecked(headers, body) == TRUE

ArityOK(headers, body) == Len(headers) = Shape1(body)

\* the third loop: the run of lines beginning with '_' after the loop line b2,
\* and the line that ended it (b3)
read_headers(f, b1, b2, b3) ==
    [marker |-> IF b1.hit THEN b1.line ELSE 0,
     loop |-> IF b2.hit THEN b2.line ELSE 0,
     hdrEnd |-> IF b3.hit THEN b3.line - 1 ELSE Len(f),
     headers |-> [k \in 1..((IF b3.hit THEN b3.line - 1 ELSE Len(f)) - b2.pos + 1) |->
                     Split(Strip(f[b2.pos + k - 1]))[1]],
     pos |-> b3.pos,
     line |-> b3.line]

\* body = [line.strip().split()] (NameError when no line was ever read), then
\* the fourth loop (b4) appends the lines up to the first whitespace-only one
read_body(f, h, b4) ==
    IF h.line = 0 THEN <<>>
    ELSE <<Split(Strip(f[h.line]))>> \o
         [k \in 1..((IF b4.hit THEN b4.line - 1 ELSE Len(f)) - h.pos + 1) |->
             Split(Strip(f[h.pos + k - 1]))]

read_result(h, b4, body) ==
    [ok |-> h.line # 0 /\ Rectangular(body) /\ ArityOK(h.headers, body),
     headers |-> h.headers,
     body |-> body,
     pos |-> b4.pos,
     marker |-> h.marker,
     loop |-> h.loop,
     hdrEnd |-> h.hdrEnd]

read_from_body(f, h, b4) == read_result(h, b4, read_body(f, h, b4))

read_from_headers(f, h) ==
    read_from_body(f, h, ForBreak(f, h.pos, h.line, BlankLines(f)))

read_from_loop(f, b1, b2) ==
    read_from_headers(f,
        read_headers(f, b1, b2,
            ForBreak(f, b2.pos, b2.line, (1..Len(f)) \ Beginning(f, LabelPrefix))))

read_from_block(f, b1) ==
    read_from_loop(f, b1, ForBreak(f, b1.pos, b1.line, Beginning(f, LoopMarker)))

read_block(f, pos, blockname) ==
    read_from_block(f, ForBreak(f, pos, 0, Beginning(f, blockname)))

----------------------------------------------------------------------------
(* RelionMetaData.load and its helpers *)

\* the version check of load: the first line whose first word is 'data_optics'
\* or 'data_' decides; every other line (blank, comment or anything else) is
\* passed over; relion31 stays None when the file is exhausted
IsMarker(l) ==
    Split(Strip(l)) # <<>>
    /\ (Split(Strip(l))[1] = DataOptics \/ Split(Strip(l))[1] = DataLegacy)

Detected(f, b) ==
    [found |-> b.hit,
     relion31 |-> b.hit /\ Split(Strip(f[b.line]))[1] = DataOptics,
     line |-> IF b.hit THEN b.line ELSE 0]

Detect(f) == Detected(f, ForBreak(f, 1, 0, {i \in 1..Len(f) : IsMarker(f[i])}))

load_relion31_frames(o, p) ==
    IF o.ok /\ p.ok /\ FrameOK(o.body, o.headers) /\ FrameOK(p.body, p.headers)
    THEN [ok |-> TRUE,
          df_particles |-> DataFrame(p.body, p.headers),
          df_optics |-> DataFrame(o.body, o.headers),
          reads |-> <<o, p>>]
    ELSE [ok |-> FALSE, df_particles |-> NoFrame, df_optics |-> NoFrame,
          reads |-> IF o.ok THEN <<o, p>> ELSE <<o>>]

load_relion31_second(f, o) ==
    load_relion31_frames(o, read_block(f, o.pos, DataParticles))

load_relion31(f) == load_relion31_second(f, read_block(f, 1, DataOptics))

load_relion_frame(r) ==
    IF r.ok /\ FrameOK(r.body, r.headers)
    THEN [ok |-> TRUE,
          df_particles |-> DataFrame(r.body, r.headers),
          df_optics |-> NoFrame,
          reads |-> <<r>>]
    ELSE [ok |-> FALSE, df_particles |-> NoFrame, df_optics |-> NoFrame,
          reads |-> <<r>>]

load_relion(f) == load_relion_frame(read_block(f, 1, DataLegacy))

\* the optics argument load passes to the constructor: present iff relion31
LoadHasOptics(relion31) == relion31

load_result(d, r) ==
    [ok |-> r.ok, relion31 |-> d.relion31,
     hasOptics |-> LoadHasOptics(d.relion31),
     df_particles |-> r.df_particles, df_optics |-> r.df_optics,
     detected |-> d.line, reads |-> r.reads]

load_detected(f, d) ==
    IF ~d.found
    THEN [ok |-> FALSE, relion31 |-> FALSE, hasOptics |-> FALSE,
          df_particles |-> NoFrame, df_optics |-> NoFrame,
          detected |-> 0, reads |-> <<>>]
    ELSE load_result(d, IF d.relion31 THEN load_relion31(f) ELSE load_relion(f))

load(f) == load_detected(f, Detect(f))

----------------------------------------------------------------------------
(* RelionMetaData.write and _write_block *)

\* iterating df.loc[i]: the values of the row labelled i when the label is
\* unique; when several rows carry the label, df.loc[i] is a DataFrame and
\* iterating it yields its column labels
Loc(df, i) ==
    LET hits == {k \in 1..Len(df.index) : df.index[k] = i}
    IN  IF Cardinality(hits) = 1
        THEN df.rows[CHOOSE k \in hits : TRUE]
        ELSE df.columns

write_block(blockname, df) ==
    <<Strip(blockname), <<>>, LoopMarker>>
    \o (IF df.columns = <<>> THEN <<(<<>>)>> ELSE df.columns)
    \o [k \in 1..Len(df.index) |-> Join(Loc(df, df.index[k]), <<" ">>)]
    \o <<(<<>>)>>

write(df_particles, hasOptics, df_optics) ==
    <<Provenance, <<>>>>
    \o (IF hasOptics
        THEN write_block(DataOptics, df_optics)
             \o write_block(DataParticles, df_particles)
        ELSE write_block(DataLegacy, df_particles))

----------------------------------------------------------------------------
(* RelionMetaData.iloc *)

\* pandas positional indexing with a list: every position must lie in -n..n-1
InRange(i, n) == -n <= i /\ i < n

\* a negative position counts from the end
Position(i, n) == IF i < 0 THEN n + i ELSE i

ILocWrap(df, idxs) ==
    LET n == Len(df.rows)
    IN  IF n = 0 /\ idxs # <<>>
        THEN [ok |-> FALSE, df |-> NoFrame]
        ELSE [ok |-> TRUE,
              df |-> [columns |-> df.columns,
                      rows |-> [k \in 1..Len(idxs) |-> df.rows[(idxs[k] % n) + 1]],
                      index |-> [k \in 1..Len(idxs) |-> df.index[(idxs[k] % n) + 1]]]]

ILocSorted(df, idxs) ==
    LET n == Len(df.rows)
        pos == {Position(idxs[k], n) + 1 : k \in {j \in 1..Len(idxs) : InRange(idxs[j], n)}}
        RECURSIVE Asc(_)
        Asc(S) == IF S = {} THEN <<>> ELSE <<Min(S)>> \o Asc(S \ {Min(S)})
        order == Asc(pos)
    IN  IF \E k \in 1..Len(idxs) : ~InRange(idxs[k], n)
        THEN [ok |-> FALSE, df |-> NoFrame]
        ELSE [ok |-> TRUE,
              df |-> [columns |-> df.columns,
                      rows |-> [k \in 1..Len(order) |-> df.rows[order[k]]],
                      index |-> [k \in 1..Len(order) |-> df.index[order[k]]]]]

\* the requested positions that designate no row of df: neither a row number
\* 0..n-1 nor a row counted from the end, -1..-n
Rejected(df, idxs) ==
    LET n == Len(df.rows)
    IN  {idxs[k] : k \in 1..Len(idxs)} \ ((0 - n)..(n - 1))

\* df.iloc[idxs]: IndexError when a position is out of bounds, else a new
\* DataFrame of the selected rows, which keep their index labels
ILoc(df, idxs) ==
    LET n == Len(df.rows)
    IN  IF \E k \in 1..Len(idxs) : ~InRange(idxs[k], n)
        THEN [ok |-> FALSE, df |-> NoFrame]
        ELSE [ok |-> TRUE,
              df |-> [columns |-> df.columns,
                      rows |-> [k \in 1..Len(idxs) |->
                                    df.rows[Position(idxs[k], n) + 1]],
                      index |-> [k \in 1..Len(idxs) |->
                                    df.index[Position(idxs[k], n) + 1]]]]

\* the df_optics argument iloc passes to the constructor
IlocOpticsNone(doc) == 0

IlocOptics(doc) == doc.df_optics

----------------------------------------------------------------------------
(* Input files. *)

Blank == <<>>
Comment == <<"#", " ", "v">>
Foo == <<"f", "o", "o", "_", "b", "a", "r">>
DataX == <<"d", "a", "t", "a", "_", "x">>
LeadLegacy == <<" ">> \o DataLegacy

Letters == <<"a", "b", "c", "d">>
Digits == <<"1", "2", "3", "4">>

\* the k-th column declaration; every second one carries a trailing comment
HeaderLine(k) ==
    IF k % 2 = 1 THEN <<"_", Letters[k]>> ELSE <<"_", Letters[k], " ", "#", "1">>

Headers(n) == [k \in 1..n |-> HeaderLine(k)]

\* data lines: one field; one field that begins with '_' behind leading
\* whitespace; two fields separated by a run of two spaces
RowLines == {<<"1">>, <<" ", "_", "x">>, <<"2", " ", " ", "1">>}

SeqsUpTo(S, n) == UNION {[1..k -> S] : k \in 0..n}

ParticlesBlock == <<DataParticles, Blank, LoopMarker, <<"_", "p">>, <<"7">>, Blank>>

Preambles == {<<>>, <<Comment, Blank>>, <<Foo>>}
Markers == {DataLegacy, LeadLegacy, DataOptics, DataX}
Loops == {<<Blank, LoopMarker>>, <<>>}
Tails == {<<>>, <<Blank>>, <<Blank, Blank>>, <<Blank>> \o ParticlesBlock}

File(pre, marker, loop, ncols, rows, tail) ==
    pre \o <<marker>> \o loop \o Headers(ncols) \o rows \o tail

\* files of every shape, well-formed or not
ParseFiles ==
    {File(pre, m, lp, nc, rows, tl) :
        pre \in Preambles, m \in Markers, lp \in Loops, nc \in 0..MaxCols,
        rows \in SeqsUpTo(RowLines, MaxRows), tl \in Tails}

\* the k-th data line of a well-formed one-column block
DocRow(k) == IF k = 2 THEN <<" ", "_", "x">> ELSE <<Digits[k]>>
DocRows(from, n) == [k \in 1..n |-> DocRow(from + k - 1)]

\* well-formed files of n one-column records, legacy or modern; the optics
\* block of a modern file has two columns and one row
LegacyFile(n) ==
    <<Comment, Blank, DataLegacy, Blank, LoopMarker>> \o Headers(1)
    \o DocRows(1, n) \o <<Blank>>

ModernFile(n) ==
    <<Comment, Blank, DataOptics, Blank, LoopMarker>> \o Headers(2)
    \o <<(<<"2", " ", " ", "1">>), Blank, DataParticles, Blank, LoopMarker>>
    \o Headers(1) \o DocRows(2, n) \o <<Blank>>

DocFiles == {LegacyFile(n) : n \in 1..MaxRows} \cup {ModernFile(n) : n \in 1..MaxRows}

\* index lists given to iloc
IdxRange == (0 - 1)..MaxRows
IdxSeqs == SeqsUpTo(IdxRange, MaxIdx)

\* DataFrames given to the constructor directly
BuiltParticles == DataFrame(<< <<(<<"5">>)>>, <<(<<"6">>)>> >>, <<(<<"_", "a">>)>>)
BuiltOptics == DataFrame(<< <<(<<"9">>)>> >>, <<(<<"_", "o">>)>>)

----------------------------------------------------------------------------
(* The state machine. *)

NoOp == [op |-> "none"]

Init ==
    /\ disk \in DocFiles
    /\ diskFrom = 0
    /\ frames = <<>>
    /\ docs = <<>>
    /\ last = NoOp

InitParse ==
    /\ disk \in ParseFiles
    /\ diskFrom = 0
    /\ frames = <<>>
    /\ docs = <<>>
    /\ last = NoOp

\* RelionMetaData(df_particles, df_optics): a new object on the heap
Construct(withOptics) ==
    /\ Len(docs) < MaxDocs
    /\ frames' = IF withOptics THEN frames \o <<BuiltOptics, BuiltParticles>>
                 ELSE Append(frames, BuiltParticles)
    /\ docs' = Append(docs, [df_particles |-> Len(frames'),
                             df_optics |-> IF withOptics THEN Len(frames) + 1 ELSE 0])
    /\ last' = [op |-> "construct", ok |-> TRUE, doc |-> Len(docs) + 1]
    /\ UNCHANGED <<disk, diskFrom>>

\* the object load returns, or the error it raises
Loaded(r) ==
    /\ IF r.ok
       THEN /\ frames' = IF r.hasOptics
                         THEN frames \o <<r.df_optics, r.df_particles>>
                         ELSE Append(frames, r.df_particles)
            /\ docs' = Append(docs,
                         [df_particles |-> Len(frames'),
                          df_optics |-> IF r.hasOptics THEN Len(frames) + 1 ELSE 0])
       ELSE UNCHANGED <<frames, docs>>
    /\ last' = [op |-> "load", ok |-> r.ok, relion31 |-> r.relion31,
                detected |-> r.detected, reads |-> r.reads,
                source |-> diskFrom,
                doc |-> IF r.ok THEN Len(docs) + 1 ELSE 0]

\* RelionMetaData.load(starfile)
Load ==
    /\ Len(docs) < MaxDocs
    /\ Loaded(load(disk))
    /\ UNCHANGED <<disk, diskFrom>>

\* RelionMetaData._read_block(f, blockname) on the file, read from its start
Decode(blockname) ==
    /\ last' = [op |-> "read_block", blockname |-> blockname,
                result |-> read_block(disk, 1, blockname)]
    /\ UNCHANGED <<disk, diskFrom, frames, docs>>

\* the object iloc returns, or the error it raises
Projected(d, idxs, r) ==
    /\ IF r.ok
       THEN /\ frames' = Append(frames, r.df)
            /\ docs' = Append(docs, [df_particles |-> Len(frames) + 1,
                                     df_optics |-> IlocOptics(docs[d])])
       ELSE UNCHANGED <<frames, docs>>
    /\ last' = IF r.ok
               THEN [op |-> "iloc", ok |-> TRUE, src |-> d, idxs |-> idxs,
                     doc |-> Len(docs) + 1]
               ELSE [op |-> "iloc", ok |-> FALSE, src |-> d,
                     rejected |-> Rejected(frames[docs[d].df_particles], idxs)]

\* docs[d].iloc(idxs)
Iloc(d, idxs) ==
    /\ Len(docs) < MaxDocs
    /\ Projected(d, idxs, ILoc(frames[docs[d].df_particles], idxs))
    /\ UNCHANGED <<disk, diskFrom>>

\* docs[d].write(outdir, outfile_rootname), to the path of `disk`
Write(d) ==
    /\ disk' = write(frames[docs[d].df_particles], docs[d].df_optics # 0,
                     IF docs[d].df_optics # 0 THEN frames[docs[d].df_optics]
                     ELSE NoFrame)
    /\ diskFrom' = d
    /\ last' = [op |-> "write", ok |-> TRUE, doc |-> d]
    /\ UNCHANGED <<frames, docs>>

Next ==
    \/ \E w \in BOOLEAN : Construct(w)
    \/ Load
    \/ \E d \in 1..Len(docs) : \E idxs \in IdxSeqs : Iloc(d, idxs)
    \/ \E d \in 1..Len(docs) : Write(d)

NextParse ==
    \/ Load
    \/ \E bn \in {DataLegacy, DataOptics, DataParticles} : Decode(bn)

Spec == Init /\ [][Next]_vars

SpecParse == InitParse /\ [][NextParse]_vars

----------------------------------------------------------------------------
(* Notions the properties are stated with. *)

\* the DataFrames of document d
Particles(d) == frames[docs[d].df_particles]
HasOptics(d) == docs[d].df_optics # 0
Optics(d) == frames[docs[d].df_optics]

\* a line that layout detection is specified to skip: whitespace-only, or its
\* first token begins with '#'
Skipped(l) == Strip(l) = <<>> \/ Head(Split(l)[1]) = "#"

\* the first line of f that is not skipped (0: there is none), and its first token
FirstMeaningful(f) ==
    LET S == {i \in 1..Len(f) : ~Skipped(f[i])}
    IN  IF S = {} THEN 0 ELSE Min(S)

LeadingToken(f) == Split(f[FirstMeaningful(f)])[1]

\* some line of f begins with blockname and a later one with 'loop_'
HasBlock(f, blockname) ==
    \E i, j \in 1..Len(f) :
        i < j /\ StartsWith(f[i], blockname) /\ StartsWith(f[j], LoopMarker)

\* position i designates one of the rows 0..n-1, counted from either end
Designates(i, n) == \E r \in 0..(n - 1) : i = r \/ i = r - n
RowOf(i, n) == CHOOSE r \in 0..(n - 1) : i = r \/ i = r - n

\* every row of a table has one field per column
ArityHolds(columns, rows) == \A i \in 1..Len(rows) : Len(rows[i]) = Len(columns)

\* the text of one block as the specification describes it
BlockText(blockname, df) ==
    <<blockname, <<>>, LoopMarker>> \o df.columns
    \o [k \in 1..Len(df.rows) |-> Join(df.rows[k], <<" ">>)] \o <<(<<>>)>>

SameTable(a, b) == a.columns = b.columns /\ a.rows = b.rows

----------------------------------------------------------------------------
(* Properties. *)

\* C1: loading the file that write(D) produced yields a document whose primary
\* table, and optics table when present, have D's columns and rows.
C1_RoundTrip ==
    (last.op = "load" /\ last.source # 0) =>
        /\ last.ok
        /\ SameTable(Particles(last.doc), Particles(last.source))
        /\ HasOptics(last.doc) = HasOptics(last.source)
        /\ HasOptics(last.source) => SameTable(Optics(last.doc), Optics(last.source))

\* C2: load classifies by the first line that is neither whitespace-only nor a
\* comment: 'data_optics' is modern, 'data_' is legacy, and any other leading
\* token, or no such line at all, makes load fail.
C2_Detection ==
    last.op = "load" =>
        LET i == FirstMeaningful(disk)
        IN  /\ (i # 0 /\ LeadingToken(disk) = DataOptics) =>
                    (last.detected # 0 /\ last.relion31)
            /\ (i # 0 /\ LeadingToken(disk) = DataLegacy) =>
                    (last.detected # 0 /\ ~last.relion31)
            /\ (i = 0 \/ LeadingToken(disk) \notin {DataOptics, DataLegacy}) =>
                    ~last.ok

\* C3: _read_block fails when no line begins with the block name or no later
\* line begins with 'loop_'; a modern file without a data_particles block
\* never loads.
C3_StructureNotFound ==
    /\ (last.op = "read_block" /\ ~HasBlock(disk, last.blockname)) => ~last.result.ok
    /\ (last.op = "load" /\ last.detected # 0 /\ last.relion31
            /\ ~HasBlock(disk, DataParticles)) => ~last.ok

\* C4: a table returned by _read_block has one field per column name in every
\* row, and a collected row of another length makes the read, and the load it
\* belongs to, fail.
C4_Arity ==
    /\ last.op = "read_block" =>
          /\ last.result.ok => ArityHolds(last.result.headers, last.result.body)
          /\ ~ArityHolds(last.result.headers, last.result.body) => ~last.result.ok
    /\ last.op = "load" =>
          /\ \A k \in 1..Len(last.reads) :
                /\ last.reads[k].ok =>
                      ArityHolds(last.reads[k].headers, last.reads[k].body)
                /\ ~ArityHolds(last.reads[k].headers, last.reads[k].body) => ~last.ok
          /\ last.ok =>
                /\ ArityHolds(Particles(last.doc).columns, Particles(last.doc).rows)
                /\ HasOptics(last.doc) =>
                      ArityHolds(Optics(last.doc).columns, Optics(last.doc).rows)

C4_Witness ==
    /\ last.op = "read_block"
    /\ last.result.ok
    /\ Len(last.result.headers) >= 2
    /\ Len(last.result.body) >= 2

\* C5: a document loaded from a modern file has an optics table and one loaded
\* from a legacy file has none; no operation changes whether an existing
\* document has one, and a document made by iloc has one iff its source does.
C5_LayoutFixed ==
    [][/\ \A d \in 1..Len(docs) :
              d <= Len(docs') /\ (docs'[d].df_optics # 0) = (docs[d].df_optics # 0)
       /\ (last'.op = "load" /\ last'.ok) =>
              /\ LeadingToken(disk) = DataOptics =>
                    docs'[last'.doc].df_optics \in 1..Len(frames')
              /\ LeadingToken(disk) = DataLegacy => docs'[last'.doc].df_optics = 0
       /\ (last'.op = "iloc" /\ last'.ok) =>
              (docs'[last'.doc].df_optics # 0) = (docs[last'.src].df_optics # 0)
      ]_vars

C5_Witness ==
    /\ last.op = "iloc"
    /\ last.ok
    /\ HasOptics(last.doc)
    /\ diskFrom # 0

\* C6: iloc(idxs) with positions that all designate rows returns a new
\* document whose primary table has the source's columns and, as k-th row,
\* the source's row idxs[k]; its optics table is the source's own; the source
\* document and its tables are unchanged.
C6_Projection ==
    [][last'.op = "iloc" =>
          IF last'.ok
          THEN LET src == docs[last'.src]
                   new == docs'[last'.doc]
                   from == frames[src.df_particles]
                   to == frames'[new.df_particles]
                   n == Len(from.rows)
               IN  /\ last'.doc = Len(docs) + 1
                   /\ new.df_particles \notin 1..Len(frames)
                   /\ to.columns = from.columns
                   /\ Len(to.rows) = Len(last'.idxs)
                   /\ \A k \in 1..Len(last'.idxs) :
                          to.rows[k] = from.rows[RowOf(last'.idxs[k], n) + 1]
                   /\ new.df_optics = src.df_optics
                   /\ \A d \in 1..Len(docs) : docs'[d] = docs[d]
                   /\ \A t \in 1..Len(frames) : frames'[t] = frames[t]
          ELSE last'.rejected # {}
      ]_vars

C6_Witness ==
    /\ last.op = "iloc"
    /\ last.ok
    /\ last.idxs \in {<<1, 0>>, <<0, 0>>}
    /\ Len(Particles(last.src).rows) = 2
    /\ Particles(last.src).rows[1] # Particles(last.src).rows[2]
    /\ HasOptics(last.src)

C8_Encode ==
    last.op = "write" =>
        disk = <<Provenance, <<>>>> \o
               (IF HasOptics(last.doc)
                THEN BlockText(DataOptics, Optics(last.doc))
                     \o BlockText(DataParticles, Particles(last.doc))
                ELSE BlockText(DataLegacy, Particles(last.doc)))

\* C9: when the column-name lines of a block are followed at once by a
\* whitespace-only line or by the end of the file, _read_block returns the
\* column names and no rows.
C9_ZeroRows ==
    (/\ last.op = "read_block"
     /\ last.result.marker # 0
     /\ last.result.loop # 0
     /\ last.result.hdrEnd > last.result.loop
     /\ (last.result.hdrEnd = Len(disk) \/ Strip(disk[last.result.hdrEnd + 1]) = <<>>))
    => /\ last.result.ok
       /\ last.result.headers =
              [k \in 1..(last.result.hdrEnd - last.result.loop) |->
                  Split(disk[last.result.loop + k])[1]]
       /\ last.result.body = <<>>

\* C10: the line at which load detects the layout is the line at which its
\* first _read_block finds the block marker.
C10_SameMarkerLine ==
    (last.op = "load" /\ last.detected # 0) => last.reads[1].marker = last.detected

====
